---- MODULE Spec2Model ----
(***************************************************************************)
(* Model of .github/format-release-notes.py: the line classifier           *)
(* (parse_notes with PR_RE and CHANGELOG_RE), the two renderers            *)
(* (format_markdown, format_html) and the command line entry point (main). *)
(*                                                                         *)
(* Text is modelled as a sequence of tokens.  A token is a run of          *)
(* characters that every element of the two regular expressions treats as  *)
(* a unit: a whitespace character, the asterisk, a colon, a word of        *)
(* lowercase letters, a word with an uppercase letter, "//", "@", a        *)
(* parenthesized scope, a markup character.  The literals of the patterns  *)
(* ("by", "in", "https", ":", "//", "@", "*") are tokens of their own, so  *)
(* a match of the pattern on the characters begins and ends on token       *)
(* borders and the match on tokens is the match on characters.             *)
(***************************************************************************)
EXTENDS Integers, Sequences, FiniteSets, TLC

\* ------------------------------------------------------------------ bounds

\* Longest input, in lines, that ReadText draws.
MaxLines == 2

\* ------------------------------------------------------------------ tokens

SP == " "
TAB == "\t"

\* \s of the patterns and the characters str.strip() removes.
IsSpace(t) == t \in {SP, TAB}

\* Words matched whole by [a-z]+.
IsLower(t) ==
    t \in {"feat", "fix", "perf", "refactor", "docs", "style", "test",
           "build", "ci", "chore", "wip", "add", "see", "by", "in",
           "https", "http", "u", "x", "y"}

\* Words matched whole by [\w-]+.
IsWord(t) == IsLower(t) \/ t \in {"Feat", "v1", "-"}

\* \S of the patterns.
NotSpace(t) == ~IsSpace(t)

\* Membership of a token in a character class of the patterns.
InClass(cls, t) ==
    CASE cls = "\\s" -> IsSpace(t)
      [] cls = "\\S" -> NotSpace(t)
      [] cls = "[a-z]" -> IsLower(t)
      [] cls = "[\\w-]" -> IsWord(t)

\* Python's None and a present value: an optional is a sequence of length <= 1.
None == <<>>
Some(v) == <<v>>

\* Truth value of an optional string or list (None, "" and [] are false).
Truthy(o) == o # None /\ o[1] # <<>>

SetMin(S) == CHOOSE m \in S : \A k \in S : m <= k
SetMax(S) == CHOOSE m \in S : \A k \in S : m >= k

\* End (exclusive) of the longest run of tokens of class cls starting at p.
RECURSIVE RunEnd(_, _, _)
RunEnd(s, p, cls) ==
    IF p > Len(s) \/ ~InClass(cls, s[p]) THEN p ELSE RunEnd(s, p + 1, cls)

\* Start of the longest run of tokens of class cls ending at p (inclusive).
RECURSIVE RunStart(_, _, _)
RunStart(s, p, cls) ==
    IF p < 1 \/ ~InClass(cls, s[p]) THEN p + 1 ELSE RunStart(s, p - 1, cls)

\* str.strip(): the text without its leading and trailing whitespace.
Strip(s) ==
    LET first == RunEnd(s, 1, "\\s")
    IN  IF first > Len(s) THEN <<>>
        ELSE SubSeq(s, first, RunStart(s, Len(s), "\\s") - 1)

At(s, p, t) == p >= 1 /\ p <= Len(s) /\ s[p] = t

\* https?://\S+ at p: the ends (exclusive) it can reach; \S+ may give back.
UrlEnds(s, p) ==
    IF (At(s, p, "https") \/ At(s, p, "http")) /\ At(s, p + 1, ":") /\ At(s, p + 2, "//")
    THEN (p + 4)..RunEnd(s, p + 3, "\\S")
    ELSE {}

\* ------------------------------------------------------------ CHANGELOG_RE

\* CHANGELOG_RE.match(line): the url group of the match, or None.
\* The pattern is anchored at the start only; \s* and \S+ are greedy.
CHANGELOG_RE(s) ==
    IF At(s, 1, "**Full") /\ At(s, 2, SP) /\ At(s, 3, "Changelog**:")
    THEN LET q == RunEnd(s, 4, "\\s")
             ends == UrlEnds(s, q)
         IN  IF ends = {} THEN None ELSE Some(SubSeq(s, q, SetMax(ends) - 1))
    ELSE None

\* ------------------------------------------------------------------- PR_RE

\* (?:\s+by\s+@[\w-]+) at p: the ends (exclusive) it can reach.
ByEnds(s, p) ==
    LET a == RunEnd(s, p, "\\s")
        b == RunEnd(s, a + 1, "\\s")
    IN  IF a > p /\ At(s, a, "by") /\ b > a + 1 /\ At(s, b, "@")
        THEN (b + 2)..RunEnd(s, b + 1, "[\\w-]")
        ELSE {}

\* (?:\s+in\s+https?://\S+) at p: the ends (exclusive) it can reach.
InEnds(s, p) ==
    LET a == RunEnd(s, p, "\\s")
        b == RunEnd(s, a + 1, "\\s")
    IN  IF a > p /\ At(s, a, "in") /\ b > a + 1
        THEN UrlEnds(s, b)
        ELSE {}

\* (by)?(in)?\s*$ matches from e to the end of the line.
RestMatches(s, e) ==
    \E q1 \in {e} \cup ByEnds(s, e) :
        \E q2 \in {q1} \cup InEnds(s, q1) :
            RunEnd(s, q2, "\\s") = Len(s) + 1

\* The first end (exclusive) from e on at which the rest of the pattern
\* matches, 0 when there is none.
RECURSIVE FirstEnd(_, _)
FirstEnd(s, e) ==
    IF e > Len(s) + 1 THEN 0
    ELSE IF RestMatches(s, e) THEN e
    ELSE FirstEnd(s, e + 1)

\* (?P<desc>.+) from p: the greedy description, which runs to the end.
DescEndGreedy(s, p) == IF p <= Len(s) THEN Len(s) + 1 ELSE 0

\* (?P<desc>.+?) from p: the end (exclusive) of the shortest description, of
\* one character at least, that lets the rest of the pattern match; 0 when
\* there is none.
DescEnd(s, p) == FirstEnd(s, p + 1)

\* (?P<type>[a-z]+)(?:\([^)]*\))?: at p: the position of the colon, 0 when the
\* group does not match.  [a-z]+ takes the whole run: what follows it must be
\* the scope or the colon.
TypeColon(s, p) ==
    LET r == RunEnd(s, p, "[a-z]")
        c == IF At(s, r, "(ui)") THEN r + 1 ELSE r
    IN  IF r > p /\ At(s, c, ":") THEN c ELSE 0

NoMatch == [matched |-> FALSE, type |-> None, desc |-> <<>>]

\* The match that starts the description at p, with the type group as given.
MatchFrom(s, ty, p) ==
    [matched |-> TRUE, type |-> ty, desc |-> SubSeq(s, p, DescEnd(s, p) - 1)]

\* ^\*\s* : the whitespace after the asterisk optional.
BulletEndsNoSpace(s) ==
    IF At(s, 1, "*") THEN 2..RunEnd(s, 2, "\\s") ELSE {}

\* ^\*\s+ : the ends (exclusive) it can reach, none without the asterisk or
\* without whitespace after it.
BulletEnds(s) ==
    IF At(s, 1, "*") THEN 3..RunEnd(s, 2, "\\s") ELSE {}

\* PR_RE.match(line): the first match in the order the backtracking matcher
\* tries them.  ^\*\s+ takes the most whitespace it can; the type group is
\* tried before its absence, its \s* longest first; the description is the
\* shortest that lets the rest match.
PR_RE(s) ==
    IF BulletEnds(s) = {} THEN NoMatch
    ELSE
    LET b == SetMax(BulletEnds(s))
        c == TypeColon(s, b)
        w == IF c = 0 THEN {}
             ELSE {p \in (c + 1)..RunEnd(s, c + 1, "\\s") : DescEnd(s, p) # 0}
        \* without the type group, giving back whitespace of ^\*\s+ as needed
        u == {p \in BulletEnds(s) : DescEnd(s, p) # 0}
    IN  IF w # {}
        THEN MatchFrom(s, Some(SubSeq(s, b, RunEnd(s, b, "[a-z]") - 1)), SetMax(w))
        ELSE IF u # {} THEN MatchFrom(s, None, SetMax(u))
        ELSE NoMatch

\* ---------------------------------------------------------------- tables

WhatsNew == <<"What", "'", "s", SP, "New">>
Fixes == <<"Fixes">>
Performance == <<"Performance">>
UnderTheHood == <<"Under", SP, "the", SP, "Hood">>
Documentation == <<"Documentation">>
Style == <<"Style">>
Testing == <<"Testing">>
Other == <<"Other">>

\* The SECTIONS dict, in insertion order: <<type, heading>>.
SECTIONS ==
    << <<<<"feat">>, WhatsNew>>,
       <<<<"fix">>, Fixes>>,
       <<<<"perf">>, Performance>>,
       <<<<"refactor">>, UnderTheHood>>,
       <<<<"docs">>, Documentation>>,
       <<<<"style">>, Style>>,
       <<<<"test">>, Testing>> >>

SKIP_TYPES == {<<"build">>, <<"ci">>, <<"chore">>}

\* SECTIONS.get(pr_type, default)
SectionsGet(pr_type, default) ==
    LET hit == {k \in 1..Len(SECTIONS) : SECTIONS[k][1] = pr_type}
    IN  IF hit = {} THEN default ELSE SECTIONS[SetMax(hit)][2]

\* ----------------------------------------------------------- parse_notes

\* An empty dict; a dict is a function from its keys.
EmptyDict == [h \in {} |-> <<>>]

\* sections.get(heading): the entries as an optional.
Get(secs, heading) ==
    IF heading \in DOMAIN secs THEN Some(secs[heading]) ELSE None

\* The append skipped when the heading already holds the description.
SetDefaultAppendNoDup(secs, section, desc) ==
    LET old == IF section \in DOMAIN secs THEN secs[section] ELSE <<>>
    IN  [h \in DOMAIN secs \cup {section} |->
            IF h = section
            THEN (IF \E k \in 1..Len(old) : old[k] = desc THEN old ELSE Append(old, desc))
            ELSE secs[h]]

\* sections.setdefault(section, []).append(desc)
SetDefaultAppend(secs, section, desc) ==
    [h \in DOMAIN secs \cup {section} |->
        IF h = section
        THEN Append(IF section \in DOMAIN secs THEN secs[section] ELSE <<>>, desc)
        ELSE secs[h]]

\* pr_match.group("type") or ""
PrType(pm) == IF pm.type = None THEN <<>> ELSE pm.type[1]

\* The assignment guarded by `if changelog_url is None`: the first match kept.
AssignChangelogKeepFirst(old, cm) == IF old = None THEN cm ELSE old

\* changelog_url = changelog_match.group("url")
AssignChangelog(old, cm) == cm

\* if pr_type in SKIP_TYPES: continue
Skipped(pr_type) == pr_type \in SKIP_TYPES

\* section = SECTIONS.get(pr_type, "Other")
SectionFor(pr_type) == SectionsGet(pr_type, Other)

\* One pass of the loop of parse_notes over `rawline`, from the sections and
\* the changelog_url built so far.
LoopBody(secs, url, rawline) ==
    LET line == Strip(rawline)
        changelog_match == CHANGELOG_RE(line)
        pr_match == PR_RE(line)
        pr_type == PrType(pr_match)
        desc == Strip(pr_match.desc)
    IN  IF changelog_match # None
        THEN [sections |-> secs, changelog_url |-> AssignChangelog(url, changelog_match)]
        ELSE IF ~pr_match.matched
        THEN [sections |-> secs, changelog_url |-> url]
        ELSE IF Skipped(pr_type)
        THEN [sections |-> secs, changelog_url |-> url]
        ELSE [sections |-> SetDefaultAppend(secs, SectionFor(pr_type), desc),
              changelog_url |-> url]

\* -------------------------------------------------------------- renderers

\* list(dict.fromkeys(values)): the values, each kept at its first place.
RECURSIVE DictFromKeys(_)
DictFromKeys(vals) ==
    IF vals = <<>> THEN <<>>
    ELSE LET front == DictFromKeys(SubSeq(vals, 1, Len(vals) - 1))
             last == vals[Len(vals)]
         IN  IF \E k \in 1..Len(front) : front[k] = last THEN front
             ELSE Append(front, last)

\* ordered_keys with "Other" put first instead of appended.
ordered_keys_other_first ==
    <<Other>> \o DictFromKeys([k \in 1..Len(SECTIONS) |-> SECTIONS[k][2]])

\* ordered_keys of both renderers.
ordered_keys ==
    Append(DictFromKeys([k \in 1..Len(SECTIONS) |-> SECTIONS[k][2]]), Other)

\* html.escape(text): the five markup characters replaced, the rest kept.
EscapeTok(t) ==
    CASE t = "&" -> "&amp;"
      [] t = "<" -> "&lt;"
      [] t = ">" -> "&gt;"
      [] t = "\"" -> "&quot;"
      [] t = "'" -> "&#x27;"
      [] OTHER -> t

Escape(text) == [k \in 1..Len(text) |-> EscapeTok(text[k])]

\* The lines one heading adds to the markdown: nothing when it has no entry.
MarkdownBlock(heading, secs) ==
    LET entries == Get(secs, heading)
    IN  IF ~Truthy(entries) THEN <<>>
        ELSE <<<<"### ">> \o heading>>
             \o [k \in 1..Len(entries[1]) |-> <<"- ">> \o entries[1][k]]
             \o <<<<>>>>

RECURSIVE MarkdownBlocks(_, _)
MarkdownBlocks(keys, secs) ==
    IF keys = <<>> THEN <<>>
    ELSE MarkdownBlock(Head(keys), secs) \o MarkdownBlocks(Tail(keys), secs)

\* format_markdown: the list `lines` before it is joined.
format_markdown(tag, secs, url) ==
    <<<<"## Brewy ", tag>>, <<>>>>
    \o MarkdownBlocks(ordered_keys, secs)
    \o (IF Truthy(url)
        THEN <<<<"---">>, <<"**Full Changelog**: ">> \o url[1], <<>>>>
        ELSE <<>>)

\* The lines one heading adds to the HTML: nothing when it has no entry.
HtmlBlock(heading, secs) ==
    LET entries == Get(secs, heading)
    IN  IF ~Truthy(entries) THEN <<>>
        ELSE <<<<"<h2>">> \o Escape(heading) \o <<"</h2>">>, <<"<ul>">>>>
             \o [k \in 1..Len(entries[1]) |->
                    <<"  <li>">> \o Escape(entries[1][k]) \o <<"</li>">>]
             \o <<<<"</ul>">>>>

RECURSIVE HtmlBlocks(_, _)
HtmlBlocks(keys, secs) ==
    IF keys = <<>> THEN <<>>
    ELSE HtmlBlock(Head(keys), secs) \o HtmlBlocks(Tail(keys), secs)

\* format_html with the changelog link rendered as format_markdown renders it.
format_html_with_changelog(tag, secs, url) ==
    HtmlBlocks(ordered_keys, secs)
    \o (IF Truthy(url) THEN <<<<"**Full Changelog**: ">> \o url[1]>> ELSE <<>>)

\* format_html: the list `parts` before it is joined.
format_html(tag, secs, url) == HtmlBlocks(ordered_keys, secs)

\* print("\n".join(parts)): the lines written.  Joining no part gives the
\* empty string, which prints as one empty line.
PrintJoined(parts) == IF parts = <<>> THEN <<<<>>>> ELSE parts

\* ------------------------------------------------------------------ inputs

Bullet == <<"*", SP>>
ByUser == <<SP, "by", SP, "@", "u">>
UrlX == <<"https", ":", "//", "x">>
UrlY == <<"https", ":", "//", "y">>
InUrl == <<SP, "in", SP>> \o UrlX
FullChangelog == <<"**Full", SP, "Changelog**:", SP>>

\* The lines an input file is made of: pull request lines of every type
\* class, with and without scope, attribution and link; lines with an empty
\* description; lines without the bullet; the Full Changelog line.
InputLines ==
    { Bullet \o <<"feat", ":", SP, "add">>,
      Bullet \o <<"feat", "(ui)", ":", SP, "add", SP, "<", SP, "x">> \o ByUser \o InUrl,
      Bullet \o <<"fix", ":", SP, "add">> \o ByUser \o InUrl,
      Bullet \o <<"fix", ":", SP, "see">> \o ByUser,
      Bullet \o <<"feat", ":", SP, "fix", ":", SP, "add">> \o ByUser \o ByUser \o InUrl,
      Bullet \o <<"perf", ":", SP, "see", SP, "in", SP>> \o UrlY \o ByUser \o InUrl,
      Bullet \o <<"wip", ":", SP, "add">> \o InUrl,
      Bullet \o <<"chore", ":", SP, "add">>,
      Bullet \o <<"ci", "(ui)", ":", SP, "add">> \o ByUser \o InUrl,
      Bullet \o <<"build", ":", SP, "add", SP, "x">>,
      Bullet \o <<"feat", ":">>,
      Bullet \o <<"chore", ":", SP>>,
      Bullet \o <<"Feat", ":", SP, "add">>,
      Bullet \o <<"add">> \o ByUser,
      <<"feat", ":", SP, "add">>,
      <<"*", "feat", ":", SP, "add">>,
      <<"*", TAB, "feat", ":", SP, "add">>,
      <<>>,
      <<SP, SP>> \o Bullet \o <<"docs", ":", SP, "add">> \o <<SP>>,
      FullChangelog \o UrlX,
      FullChangelog \o UrlY }

RECURSIVE SeqsUpTo(_, _)
SeqsUpTo(S, n) ==
    IF n = 0 THEN {<<>>}
    ELSE LET shorter == SeqsUpTo(S, n - 1)
         IN  shorter \cup {Append(q, e) : q \in shorter, e \in S}

\* The inputs read: every sequence of at most MaxLines input lines.
RawInputs == SeqsUpTo(InputLines, MaxLines)

Prog == "format-release-notes.py"
NotesFile == "notes.txt"
HtmlFlag == "--html"

\* The files that exist and can be read.
Files == {NotesFile}

\* The tags given on the command line.
Tags == {"v1", "v2"}

\* sys.argv of the invocations: too few arguments, the file and the tag with
\* and without --html, the flag in place of the tag or of the file, a file
\* that does not exist.
ArgvSet ==
    { <<Prog>>,
      <<Prog, NotesFile>>,
      <<Prog, HtmlFlag>>,
      <<Prog, NotesFile, "v1">>,
      <<Prog, NotesFile, "v1", HtmlFlag>>,
      <<Prog, NotesFile, HtmlFlag>>,
      <<Prog, HtmlFlag, NotesFile, "v1">>,
      <<Prog, "missing.txt", "v1">> }

\* ------------------------------------------------------------------- state

VARIABLES
    argv,           \* sys.argv
    pc,             \* where main is: "main", "parse", "done", "usage", "error"
    raw,            \* raw.splitlines(): the lines of the file read
    i,              \* the line the loop of parse_notes is at
    sections,       \* parse_notes' sections
    changelog_url,  \* parse_notes' changelog_url
    reads,          \* the paths read_text was called on
    stdout,         \* the lines written to standard output
    stderr,         \* the lines written to standard error
    exit_code       \* the exit status, None while running

vars == <<argv, pc, raw, i, sections, changelog_url, reads, stdout, stderr, exit_code>>

UsageLine(av) == <<"Usage: ", av[1], " <raw_notes_file> <tag> [--html]">>
Traceback == <<"Traceback (most recent call last):">>

Init ==
    /\ argv \in ArgvSet
    /\ pc = "main"
    /\ raw = <<>>
    /\ i = 1
    /\ sections = EmptyDict
    /\ changelog_url = None
    /\ reads = {}
    /\ stdout = <<>>
    /\ stderr = <<>>
    /\ exit_code = None

\* len(sys.argv) < 3: the usage message and exit status 1.
TooFewArgs(av) == Len(av) < 3

Usage ==
    /\ pc = "main"
    /\ TooFewArgs(argv)
    /\ stderr' = Append(stderr, UsageLine(argv))
    /\ exit_code' = Some(1)
    /\ pc' = "usage"
    /\ UNCHANGED <<argv, raw, i, sections, changelog_url, reads, stdout>>

\* raw = Path(sys.argv[1]).read_text(), then parse_notes begins.
ReadText ==
    /\ pc = "main"
    /\ ~TooFewArgs(argv)
    /\ argv[2] \in Files
    /\ \E text \in RawInputs : raw' = text
    /\ reads' = reads \cup {argv[2]}
    /\ i' = 1
    /\ sections' = EmptyDict
    /\ changelog_url' = None
    /\ pc' = "parse"
    /\ UNCHANGED <<argv, stdout, stderr, exit_code>>

\* read_text raises (no such file): the error ends the process.
ReadTextFails ==
    /\ pc = "main"
    /\ ~TooFewArgs(argv)
    /\ argv[2] \notin Files
    /\ reads' = reads \cup {argv[2]}
    /\ stderr' = Append(stderr, Traceback)
    /\ exit_code' = Some(1)
    /\ pc' = "error"
    /\ UNCHANGED <<argv, raw, i, sections, changelog_url, stdout>>

\* One pass of `for line in raw.splitlines()`.
ParseLine ==
    /\ pc = "parse"
    /\ i <= Len(raw)
    /\ LET after == LoopBody(sections, changelog_url, raw[i])
       IN  /\ sections' = after.sections
           /\ changelog_url' = after.changelog_url
    /\ i' = i + 1
    /\ UNCHANGED <<argv, pc, raw, reads, stdout, stderr, exit_code>>

\* output_html = "--html" in sys.argv
OutputHtml(av) == \E k \in 1..Len(av) : av[k] = HtmlFlag

\* What main prints from the result of parse_notes; tag = sys.argv[2].
Rendered(av, secs, url) ==
    IF OutputHtml(av)
    THEN PrintJoined(format_html(av[3], secs, url))
    ELSE PrintJoined(format_markdown(av[3], secs, url))

\* The loop is over: parse_notes returns, main renders and prints.
Render ==
    /\ pc = "parse"
    /\ i > Len(raw)
    /\ stdout' = stdout \o Rendered(argv, sections, changelog_url)
    /\ exit_code' = Some(0)
    /\ pc' = "done"
    /\ UNCHANGED <<argv, raw, i, sections, changelog_url, reads, stderr>>

Next == Usage \/ ReadText \/ ReadTextFails \/ ParseLine \/ Render

Spec == Init /\ [][Next]_vars

\* ------------------------------------------------------------ properties

\* The tag and the result of parse_notes so far, as main hands them on.
Parsing == pc \in {"parse", "done"}
TagOf(av) == av[3]

\* The lines of `out` that begin with the token `mark`, without it.
RECURSIVE Marked(_, _)
Marked(out, mark) ==
    IF out = <<>> THEN <<>>
    ELSE IF Head(out) # <<>> /\ Head(out)[1] = mark
    THEN <<Tail(Head(out))>> \o Marked(Tail(out), mark)
    ELSE Marked(Tail(out), mark)

\* The headings a markdown output emits, in order.
MarkdownHeadings(out) == Marked(out, "### ")

\* The headings an HTML output emits, in order, as escaped.
HtmlHeadings(out) ==
    LET hs == Marked(out, "<h2>")
    IN  [k \in 1..Len(hs) |-> SubSeq(hs[k], 1, Len(hs[k]) - 1)]

\* The fixed list of headings, filtered to those with a stored entry.
CanonicalHeadings ==
    <<WhatsNew, Fixes, Performance, UnderTheHood, Documentation, Style, Testing, Other>>

HeadingsWithEntries(secs) ==
    LET Has(h) == h \in DOMAIN secs /\ secs[h] # <<>>
    IN  SelectSeq(CanonicalHeadings, Has)

\* C1: in the output of format_markdown and of format_html, fed by
\* parse_notes after any input, the headings emitted are the fixed list
\* What's New, Fixes, Performance, Under the Hood, Documentation, Style,
\* Testing, Other filtered to the headings with at least one stored entry;
\* what main printed has the same headings.
C1_HeadingOrder ==
    Parsing =>
        LET want == HeadingsWithEntries(sections)
            wantEscaped == [k \in 1..Len(want) |-> Escape(want[k])]
            md == format_markdown(TagOf(argv), sections, changelog_url)
            ht == format_html(TagOf(argv), sections, changelog_url)
        IN  /\ MarkdownHeadings(md) = want
            /\ HtmlHeadings(ht) = wantEscaped
            /\ pc = "done" =>
                IF OutputHtml(argv) THEN HtmlHeadings(stdout) = wantEscaped
                ELSE MarkdownHeadings(stdout) = want

\* C1 happens: a Fixes line read before a What's New line, and the markdown
\* printed with What's New before Fixes.
C1_Witness ==
    /\ pc = "done"
    /\ ~OutputHtml(argv)
    /\ raw = <<Bullet \o <<"fix", ":", SP, "see">> \o ByUser,
               Bullet \o <<"feat", ":", SP, "add">>>>
    /\ MarkdownHeadings(stdout) = <<WhatsNew, Fixes>>

\* The url of the last of the first n lines that matches the Full Changelog
\* pattern, None when none does.
ChangelogOf == [line \in InputLines |-> CHANGELOG_RE(Strip(line))]

LastChangelog(lines, n) ==
    LET hits == {k \in 1..n : ChangelogOf[lines[k]] # None}
    IN  IF hits = {} THEN None ELSE ChangelogOf[lines[SetMax(hits)]]

\* The markdown ends with the rule, the Full Changelog line of `url` and a
\* blank line, and holds no rule and no Full Changelog line before them.
ChangelogAtEnd(md, url) ==
    LET n == Len(md)
    IN  /\ n >= 3
        /\ SubSeq(md, n - 2, n) = <<<<"---">>, <<"**Full Changelog**: ">> \o url, <<>>>>
        /\ \A k \in 1..(n - 3) :
              md[k] # <<"---">> /\ (md[k] = <<>> \/ md[k][1] # "**Full Changelog**: ")

NoChangelog(md) ==
    \A k \in 1..Len(md) :
        md[k] # <<"---">> /\ (md[k] = <<>> \/ md[k][1] # "**Full Changelog**: ")

\* C8: after any prefix of the input, changelog_url is the url of the last
\* line read that matches the Full Changelog pattern, None when no line
\* matches; format_markdown emits the rule and the Full Changelog line, after
\* every heading block, exactly when a url is present.
C8_LastChangelogWins ==
    Parsing =>
        LET md == format_markdown(TagOf(argv), sections, changelog_url)
        IN  /\ changelog_url = LastChangelog(raw, i - 1)
            /\ IF changelog_url # None
               THEN ChangelogAtEnd(md, changelog_url[1])
               ELSE NoChangelog(md)
            /\ (pc = "done" /\ ~OutputHtml(argv)) => stdout = md

\* C8 happens: two Full Changelog lines with different urls were read and the
\* markdown printed ends with the second.
C8_Witness ==
    /\ pc = "done"
    /\ ~OutputHtml(argv)
    /\ raw = <<FullChangelog \o UrlX, FullChangelog \o UrlY>>
    /\ changelog_url = Some(UrlY)
    /\ ChangelogAtEnd(stdout, UrlY)

\* C9: format_html gives the same output for every tag and every
\* changelog_url, present or absent, and that output has no title line, no
\* rule and no Full Changelog line; what main prints with --html is that output.
C9_HtmlIgnoresTagAndUrl ==
    Parsing =>
        LET urls == {None, Some(UrlX), changelog_url}
            tags == Tags \cup {TagOf(argv)}
            ht == format_html(TagOf(argv), sections, changelog_url)
        IN  /\ \A t \in tags : \A u \in urls : format_html(t, sections, u) = ht
            /\ \A k \in 1..Len(ht) :
                  /\ ht[k] # <<>>
                  /\ ht[k][1] \notin {"## Brewy ", "---", "**Full Changelog**: "}
            /\ (pc = "done" /\ OutputHtml(argv)) => stdout = PrintJoined(ht)

\* C9 happens: main printed HTML for an input with an entry and a changelog url.
C9_Witness ==
    /\ pc = "done"
    /\ OutputHtml(argv)
    /\ changelog_url = Some(UrlX)
    /\ sections # EmptyDict
    /\ Len(stdout) >= 4

\* What one line alone stores: the dict parse_notes builds from that line.
StoredBy == [line \in InputLines |-> LoopBody(EmptyDict, None, line).sections]

\* The descriptions of the lines among the first n that are stored under
\* heading h, in input order.
RECURSIVE StoredUnder(_, _, _)
StoredUnder(h, lines, n) ==
    IF n = 0 THEN <<>>
    ELSE LET one == StoredBy[lines[n]]
         IN  StoredUnder(h, lines, n - 1) \o (IF h \in DOMAIN one THEN one[h] ELSE <<>>)

\* The items a markdown output lists under heading h.
RECURSIVE ItemsFrom(_, _, _)
ItemsFrom(out, k, mark) ==
    IF k <= Len(out) /\ out[k] # <<>> /\ out[k][1] = mark
    THEN <<Tail(out[k])>> \o ItemsFrom(out, k + 1, mark)
    ELSE <<>>

MarkdownItems(out, h) ==
    LET at == {k \in 1..Len(out) : out[k] = <<"### ">> \o h}
    IN  IF at = {} THEN <<>> ELSE ItemsFrom(out, SetMin(at) + 1, "- ")

\* The items an HTML output lists under heading h, as escaped.
HtmlItems(out, h) ==
    LET at == {k \in 1..Len(out) : out[k] = <<"<h2>">> \o Escape(h) \o <<"</h2>">>}
        items == IF at = {} THEN <<>> ELSE ItemsFrom(out, SetMin(at) + 2, "  <li>")
    IN  [k \in 1..Len(items) |-> SubSeq(items[k], 1, Len(items[k]) - 1)]

\* C10: after any prefix of the input, every heading of sections maps to a
\* non-empty sequence, which is the descriptions of the stored lines of that
\* heading in input order, duplicates kept; a heading absent from sections
\* has no stored line; both renderers list the entries of a heading in that
\* order, one item each.
C10_SectionsInInputOrder ==
    Parsing =>
        LET md == format_markdown(TagOf(argv), sections, changelog_url)
            ht == format_html(TagOf(argv), sections, changelog_url)
        IN  /\ \A h \in DOMAIN sections :
                  /\ sections[h] # <<>>
                  /\ sections[h] = StoredUnder(h, raw, i - 1)
                  /\ MarkdownItems(md, h) = sections[h]
                  /\ HtmlItems(ht, h) = [k \in 1..Len(sections[h]) |-> Escape(sections[h][k])]
            /\ \A k \in 1..Len(CanonicalHeadings) :
                  CanonicalHeadings[k] \notin DOMAIN sections =>
                      StoredUnder(CanonicalHeadings[k], raw, i - 1) = <<>>

\* C10 happens: the same description stored twice under one heading.
C10_Witness ==
    /\ pc = "parse"
    /\ i = 3
    /\ raw[1] = raw[2]
    /\ sections = (WhatsNew :> <<<<"add">>, <<"add">>>>)

\* The line the loop is about to process, trimmed.
AtLine == pc = "parse" /\ i <= Len(raw)
Line == Strip(raw[i])

\* The line starts with the literal bullet marker: an asterisk and a space.
StartsWithBulletSpace(s) == Len(s) >= 2 /\ s[1] = "*" /\ s[2] = SP

\* The line starts with an asterisk and a whitespace character.
StartsWithBulletWhitespace(s) == Len(s) >= 2 /\ s[1] = "*" /\ IsSpace(s[2])

\* What follows the bullet marker and the whitespace after it.
AfterBullet(s) == SubSeq(s, RunEnd(s, 2, "\\s"), Len(s))

IsPrefix(pre, s) == Len(pre) <= Len(s) /\ SubSeq(s, 1, Len(pre)) = pre

Scopes == {<<>>, <<"(ui)">>}

\* The lowercase words a type prefix is written with.
TypeWords ==
    {"feat", "fix", "perf", "refactor", "docs", "style", "test",
     "build", "ci", "chore", "wip"}

SkipWords == {"build", "ci", "chore"}

\* A bulleted line whose type prefix is ty, with or without a scope.
HasTypePrefix(s, ty) ==
    /\ StartsWithBulletWhitespace(s)
    /\ \E sc \in Scopes : IsPrefix(<<ty>> \o sc \o <<":">>, AfterBullet(s))

\* A bulleted line that is a type prefix ty and nothing after it: trimmed, an
\* empty or whitespace-only description leaves the line ending at the colon.
HasEmptyDescription(s, ty) ==
    /\ StartsWithBulletWhitespace(s)
    /\ \E sc \in Scopes : AfterBullet(s) = <<ty>> \o sc \o <<":">>

\* The heading of a type in the canonical table, "Other" for any other type.
TableHeading(ty) ==
    CASE ty = "feat" -> WhatsNew
      [] ty = "fix" -> Fixes
      [] ty = "perf" -> Performance
      [] ty = "refactor" -> UnderTheHood
      [] ty = "docs" -> Documentation
      [] ty = "style" -> Style
      [] ty = "test" -> Testing
      [] OTHER -> Other

\* The type a line is written with: the word of its type prefix, "" for a
\* line with no prefix of lowercase letters.
TypeOfLine(s) ==
    IF \E ty \in TypeWords : HasTypePrefix(s, ty)
    THEN CHOOSE ty \in TypeWords : HasTypePrefix(s, ty)
    ELSE ""

\* secs2 is secs with one entry appended to heading h and nothing else changed.
OneEntryAppended(secs, secs2, h) ==
    /\ DOMAIN secs2 = DOMAIN secs \cup {h}
    /\ \A g \in DOMAIN secs \ {h} : secs2[g] = secs[g]
    /\ LET old == IF h \in DOMAIN secs THEN secs[h] ELSE <<>>
       IN  Len(secs2[h]) = Len(old) + 1 /\ SubSeq(secs2[h], 1, Len(old)) = old

\* C2: a bulleted line whose type prefix is build, ci or chore, with or
\* without a scope, adds no entry to any heading: processing it leaves
\* sections as it was.
C2_SkipTypesNeverStored ==
    [][(AtLine /\ \E ty \in SkipWords : HasTypePrefix(Line, ty))
        => sections' = sections]_vars

\* The positional arguments: those after the program name that are not --html.
Positionals(av) ==
    LET IsPositional(a) == a # HtmlFlag
    IN  SelectSeq(Tail(av), IsPositional)

\* C3: invoked with fewer than 2 positional arguments, main reads no file,
\* writes nothing to standard output, and ends with the usage message on
\* standard error and exit status 1.
C3_UsageOnTooFewPositionals ==
    Len(Positionals(argv)) < 2 =>
        /\ reads = {}
        /\ stdout = <<>>
        /\ pc \in {"main", "usage"}
        /\ pc = "usage" => (exit_code = Some(1) /\ stderr = <<UsageLine(argv)>>)

\* C4: a bulleted line that has a type prefix and an empty or whitespace-only
\* description stores one entry, the empty string, under the heading of its
\* type, or nothing when the type is in the skip set.
C4_EmptyDescriptionStored ==
    [][\A ty \in TypeWords :
        (AtLine /\ HasEmptyDescription(Line, ty)) =>
            IF ty \in SkipWords THEN sections' = sections
            ELSE sections' = SetDefaultAppend(sections, TableHeading(ty), <<>>)]_vars

\* C5: a line that is stored is appended to exactly one heading, the
\* canonical table's value for the type the line is written with, "Other"
\* for a type that is empty, not lowercase or not in the table.
C5_HeadingOfType ==
    [][(AtLine /\ sections' # sections)
        => OneEntryAppended(sections, sections', TableHeading(TypeOfLine(Line)))]_vars

\* C6 as claimed: a line that, trimmed, does not start with the literal
\* bullet marker, an asterisk followed by a space, leaves sections unchanged.
C6_NoLiteralBulletNoEntry ==
    [][(AtLine /\ ~StartsWithBulletSpace(Line))
        => (sections' = sections /\ pc' = "parse")]_vars

\* C6 amended: a line that, trimmed, does not start with an asterisk followed
\* by a whitespace character (a space or a tab) adds no entry to any heading
\* and raises no error: sections is unchanged and the loop goes on.
C6_NoBulletNoEntry ==
    [][(AtLine /\ ~StartsWithBulletWhitespace(Line))
        => (sections' = sections /\ pc' = "parse" /\ i' = i + 1)]_vars

\* C6 happens: after a stored line, a line with the text "feat:" and no
\* bullet was processed and sections holds the first line's entry alone.
C6_Witness ==
    /\ pc = "parse"
    /\ i = 3
    /\ raw[2] = <<"feat", ":", SP, "add">>
    /\ ~StartsWithBulletWhitespace(Strip(raw[2]))
    /\ sections = (Fixes :> <<<<"see">>>>)

\* A user name and a link as the attribution suffixes are written.
IsAttribution(tail) ==
    /\ Len(tail) = 12
    /\ SubSeq(tail, 1, 4) = <<SP, "by", SP, "@">>
    /\ IsWord(tail[5])
    /\ SubSeq(tail, 6, 11) = <<SP, "in", SP, "https", ":", "//">>
    /\ NotSpace(tail[12])

\* s is `* <ty><sc>: <d> by @user in https://x` with d not empty and trimmed.
IsPrLine(s, ty, sc, d) ==
    LET head == Bullet \o <<ty>> \o sc \o <<":", SP>>
        n == Len(head) + Len(d)
    IN  /\ d # <<>> /\ Strip(d) = d
        /\ Len(s) = n + 12
        /\ SubSeq(s, 1, n) = head \o d
        /\ IsAttribution(SubSeq(s, n + 1, n + 12))

\* The description of a line of that form: what lies between the prefix and
\* the attribution.
DescriptionOf(s, ty, sc) ==
    SubSeq(s, Len(Bullet) + 1 + Len(sc) + 2 + 1, Len(s) - 12)

\* C7: for a line `* <type>: <desc> by @user in https://x`, with or without
\* a scope after the type, the type extracted is <type> and the description
\* extracted is <desc>, whole and without the attribution and the link: the
\* entry stored is <desc>, under the heading of <type> (nothing is stored for
\* a type of the skip set).
C7_ExtractsTypeAndDescription ==
    [][\A ty \in TypeWords : \A sc \in Scopes :
        LET d == DescriptionOf(raw[i], ty, sc)
            m == PR_RE(Line)
        IN  (AtLine /\ Len(raw[i]) > 12 + Len(sc) + 5 /\ IsPrLine(raw[i], ty, sc, d)) =>
                /\ m.matched
                /\ m.type = Some(<<ty>>)
                /\ Strip(m.desc) = d
                /\ IF ty \in SkipWords THEN sections' = sections
                   ELSE /\ OneEntryAppended(sections, sections', TableHeading(ty))
                        /\ sections'[TableHeading(ty)][Len(sections'[TableHeading(ty)])] = d]_vars

\* C7 happens: a line whose description itself holds a colon and an
\* attribution was processed, and the entry stored is that description.
C7_Witness ==
    /\ pc = "parse"
    /\ i = 2
    /\ IsPrLine(raw[1], "feat", <<>>, <<"fix", ":", SP, "add">> \o ByUser)
    /\ sections = (WhatsNew :> <<<<"fix", ":", SP, "add">> \o ByUser>>)

====
